---- MODULE Spec2Model ----
(***************************************************************************)
(* Model of src/data_download.py: DukascopyDownloader.                     *)
(*                                                                         *)
(* Values.  A byte buffer is a sequence of integers 0..255.  A 32-bit      *)
(* unsigned integer is kept as two 16-bit halves [hi, lo] (hi*2^16 + lo),  *)
(* because TLC's integers are 32-bit signed and a uint32 does not fit.   *)
(* A datetime is [ord, ms]: the proleptic Gregorian ordinal of the   *)
(* day (Python's date.toordinal) and the millisecond of the day.  A text   *)
(* is a sequence of tokens: single characters, and the opaque strings      *)
(* BASE_URL, the pair and the fixed file suffix.                           *)
(***************************************************************************)
EXTENDS Integers, Sequences, FiniteSets, TLC

VARIABLES
  mode,        \* which entry point is being exercised: "range", "parse", "url"
  pc,          \* position of the running call
  pair,        \* self.pair
  dates,       \* download_range: dates (line 214)
  save,        \* download_range: save flag
  i,           \* download_range: index of the date the for loop of line 220 is at
  hour,        \* download_day: loop variable of line 167
  day_ticks,   \* download_day: list of per-hour frames (line 165)
  all_ticks,   \* download_range: list of per-day frames (line 218)
  okCount,     \* number of 200 responses the feed has given in this run
  attempts,    \* the window [dt, hour] of every requests.get issued so far
  fetchRet,    \* return value of the latest _download_file call
  logs,        \* log entries emitted by the latest step
  hourSets,    \* what each hour of the current day contributed, by hour
  dayResults,  \* return value of every download_day call so far, in order
  writes,      \* every to_csv call so far: [name, rows]
  result,      \* return value of the finished call
  data,        \* _parse_bi5: data argument
  ctx          \* _parse_bi5 / _get_tick_url: [dt, hour] arguments

vars == << mode, pc, pair, dates, save, i, hour, day_ticks, all_ticks, okCount,
           attempts, fetchRet, logs, hourSets, dayResults, writes, result, data, ctx >>

(***************************************************************************)
(* Bounds of the model.                                                    *)
(***************************************************************************)
MaxDays == 2     \* longest date range explored
MaxOk == 2       \* most 200 responses the feed gives in one run
MaxLen == 45     \* longest buffer handed to _parse_bi5 on its own

(***************************************************************************)
(* Program constants.                                                      *)
(***************************************************************************)
BASE_URL == "https://datafeed.dukascopy.com/datafeed"
HoursPerDay == 24
chunk_size == 20
PriceScale == 100000
StatusOk == 200
MsPerHour == 60 * 60 * 1000
MsPerDay == 24 * MsPerHour

Hours == 0 .. (HoursPerDay - 1)

(***************************************************************************)
(* Sequences.                                                              *)
(***************************************************************************)
RECURSIVE Flatten(_)
Flatten(ss) == IF ss = << >> THEN << >> ELSE Head(ss) \o Flatten(Tail(ss))

Count(s, x) == Cardinality({k \in 1 .. Len(s) : s[k] = x})

(***************************************************************************)
(* Calendar: datetime(y, m, d, h) and datetime + timedelta.                *)
(***************************************************************************)
IsLeap(y) == (y % 4 = 0) /\ ((y % 100 # 0) \/ (y % 400 = 0))

DaysInMonth(y, m) ==
  IF m = 2 THEN (IF IsLeap(y) THEN 29 ELSE 28)
  ELSE IF m \in {4, 6, 9, 11} THEN 30 ELSE 31

RECURSIVE DaysBeforeMonth(_, _)
DaysBeforeMonth(y, m) ==
  IF m = 1 THEN 0 ELSE DaysBeforeMonth(y, m - 1) + DaysInMonth(y, m - 1)

ToOrdinal(dt) ==
  LET y == dt.year - 1
  IN y * 365 + (y \div 4) - (y \div 100) + (y \div 400)
     + DaysBeforeMonth(dt.year, dt.month) + dt.day

\* date.max.toordinal()
MaxOrdinal == ToOrdinal([year |-> 9999, month |-> 12, day |-> 31])

\* the external collaborator generate_date_range: n consecutive dates
NextDay(dt) ==
  IF dt.day < DaysInMonth(dt.year, dt.month)
    THEN [dt EXCEPT !.day = dt.day + 1]
  ELSE IF dt.month < 12
    THEN [year |-> dt.year, month |-> dt.month + 1, day |-> 1]
  ELSE [year |-> dt.year + 1, month |-> 1, day |-> 1]

RECURSIVE generate_date_range(_, _)
generate_date_range(start, n) ==
  IF n = 0 THEN << >> ELSE << start >> \o generate_date_range(NextDay(start), n - 1)

(***************************************************************************)
(* struct.unpack('>IIIff', chunk), lines 130-134.                          *)
(***************************************************************************)
\* '>I': four bytes, most significant first
UnpackU32(b) == [hi |-> b[1] * 256 + b[2], lo |-> b[3] * 256 + b[4]]

\* '>f': IEEE 754 binary32, kept as its sign, exponent and fraction fields
UnpackF32(b) ==
  [sign |-> b[1] \div 128,
   exponent |-> (b[1] % 128) * 2 + (b[2] \div 128),
   fraction |-> (b[2] % 128) * 65536 + b[3] * 256 + b[4]]

\* timedelta(milliseconds=u): normalised to whole days and a rest, line 137.
\* u = hi*65536 + lo = (hi*4096)*16 + lo, divided in steps that stay below 2^31.
Timedelta(u) ==
  LET x == u.hi * 4096
      q1 == x \div MsPerDay
      r1 == x % MsPerDay
      y == r1 * 16
      q2 == q1 * 16 + (y \div MsPerDay)
      r2 == (y % MsPerDay) + u.lo
  IN [days |-> q2 + (r2 \div MsPerDay), ms |-> r2 % MsPerDay]

\* datetime(dt.year, dt.month, dt.day, hour, 0, 0), line 127
BaseTime(dt, h) == [ord |-> ToOrdinal(dt), ms |-> h * MsPerHour]

\* base_time + timedelta, line 137
AddDelta(t, d) ==
  [ord |-> t.ord + d.days + ((t.ms + d.ms) \div MsPerDay),
   ms |-> (t.ms + d.ms) % MsPerDay]

\* datetime + timedelta raises OverflowError past datetime.max
Overflows(t) == t.ord > MaxOrdinal

\* one tick dict, lines 134-149
DecodeChunk(chunk, dt, h) ==
  [timestamp |-> AddDelta(BaseTime(dt, h), Timedelta(UnpackU32(SubSeq(chunk, 1, 4)))),
   ask |-> [num |-> UnpackU32(SubSeq(chunk, 5, 8)), den |-> PriceScale],
   bid |-> [num |-> UnpackU32(SubSeq(chunk, 9, 12)), den |-> PriceScale],
   ask_volume |-> UnpackF32(SubSeq(chunk, 13, 16)),
   bid_volume |-> UnpackF32(SubSeq(chunk, 17, 20))]

\* data[i * chunk_size:(i + 1) * chunk_size], line 130 (i counts from 0)
Chunk(buf, k) == SubSeq(buf, k * chunk_size + 1, (k + 1) * chunk_size)

\* a variant that rejects a buffer with a trailing partial record
ParseBi5Strict(buf, dt, h) ==
  IF Len(buf) % chunk_size # 0 THEN [raised |-> TRUE, rows |-> << >>]
  ELSE [raised |-> FALSE,
        rows |-> [k \in 1 .. Len(buf) \div chunk_size |->
                    DecodeChunk(Chunk(buf, k - 1), dt, h)]]

\* _parse_bi5, lines 119-151: [raised, rows]; rows is the DataFrame, one record a row
_parse_bi5(buf, dt, h) ==
  IF Len(buf) = 0 THEN [raised |-> FALSE, rows |-> << >>]
  ELSE LET num_ticks == Len(buf) \div chunk_size
           ticks == [k \in 1 .. num_ticks |-> DecodeChunk(Chunk(buf, k - 1), dt, h)]
       IN IF \E k \in 1 .. num_ticks : Overflows(ticks[k].timestamp)
            THEN [raised |-> TRUE, rows |-> << >>]
            ELSE [raised |-> FALSE, rows |-> ticks]

(***************************************************************************)
(* _get_tick_url, lines 45-66.                                             *)
(***************************************************************************)
DigitChar(d) == << "0", "1", "2", "3", "4", "5", "6", "7", "8", "9" >>[d + 1]

RECURSIVE Decimal(_)
Decimal(n) == IF n < 10 THEN << DigitChar(n) >>
              ELSE Decimal(n \div 10) \o << DigitChar(n % 10) >>

RECURSIVE ZeroPad(_, _)
ZeroPad(s, w) == IF Len(s) >= w THEN s ELSE ZeroPad(<< "0" >> \o s, w)

\* the format specs {n:04d} and {n:02d} for n >= 0
Fmt04d(n) == ZeroPad(Decimal(n), 4)
Fmt02d(n) == ZeroPad(Decimal(n), 2)

\* a variant that keeps the calendar month
GetTickUrlCalendarMonth(p, dt, h) ==
  << BASE_URL, "/", p, "/" >> \o Fmt04d(dt.year) \o << "/" >> \o Fmt02d(dt.month)
  \o << "/" >> \o Fmt02d(dt.day) \o << "/" >> \o Fmt02d(h) \o << "h_ticks.bi5" >>

_get_tick_url(p, dt, h) ==
  LET year == dt.year
      month == dt.month - 1
      day == dt.day
  IN << BASE_URL, "/", p, "/" >> \o Fmt04d(year) \o << "/" >> \o Fmt02d(month)
     \o << "/" >> \o Fmt02d(day) \o << "/" >> \o Fmt02d(h) \o << "h_ticks.bi5" >>

(***************************************************************************)
(* The remote feed.  The server holds, for every date, the same files: an  *)
(* archive for some hours of the day and nothing (404) for the others.     *)
(* An archive is [valid, plain]: lzma.decompress returns plain when valid  *)
(* and raises LZMAError otherwise.                                         *)
(***************************************************************************)
NoArchive == [valid |-> FALSE, plain |-> << >>]
Archive(buf) == [valid |-> TRUE, plain |-> buf]

Off0 == << 0, 0, 0, 0 >>
Off5 == << 0, 0, 0, 5 >>
Off7 == << 0, 0, 0, 7 >>
OffHour == << 0, 54, 238, 128 >>    \* 3600000 ms: the start of the next hour
Vol1 == << 63, 128, 0, 0 >>         \* 1.0f
Vol2 == << 64, 32, 0, 0 >>          \* 2.5f

Rec(off, a) == off \o << 0, 1, 169, a >> \o << 128, 1, 169, a >> \o Vol1 \o Vol2

FeedHours == {0, 1, 2, 3, 4, 5, 22, 23}

FeedArchive(h) ==
  CASE h = 0 -> Archive(Rec(Off5, 10) \o Rec(Off0, 11) \o << 1, 2, 3 >>)
    [] h = 1 -> Archive(Rec(OffHour, 20))
    [] h = 2 -> Archive(Rec(Off0, 30))
    [] h = 3 -> NoArchive
    [] h = 4 -> Archive(<< >>)
    [] h = 5 -> Archive(Rec(Off7, 50) \o Rec(Off7, 51))
    [] h = 22 -> Archive(<< 9, 9, 9, 9, 9, 9, 9 >>)
    [] h = 23 -> Archive(Rec(OffHour, 60))
    [] OTHER -> NoArchive

StatusResponse(code, content) ==
  [kind |-> "status", status_code |-> code, content |-> content, exc |-> ""]
ExceptionResponse(e) ==
  [kind |-> "exception", status_code |-> 0, content |-> NoArchive, exc |-> e]

\* what requests.get(url, timeout=30) can do for hour h, line 79
Responses(h, served) ==
  {StatusResponse(404, NoArchive), StatusResponse(503, NoArchive),
   ExceptionResponse("Timeout"), ExceptionResponse("ConnectionError")}
  \cup (IF h \in FeedHours /\ served < MaxOk
          THEN {StatusResponse(StatusOk, FeedArchive(h))} ELSE {})

(***************************************************************************)
(* _download_file, lines 68-86.                                            *)
(***************************************************************************)
None == [isNone |-> TRUE, content |-> NoArchive]
Some(c) == [isNone |-> FALSE, content |-> c]

LogEntry(level, about) == [level |-> level, about |-> about]

\* a variant that asks again after a failed attempt
DownloadFileRetrying(url, response) ==
  IF response.kind = "status" /\ response.status_code = StatusOk
    THEN [requests |-> << url >>, ret |-> Some(response.content), logs |-> << >>]
    ELSE [requests |-> << url, url >>, ret |-> None, logs |-> << >>]

\* [requests, ret, logs]: the requests issued, the return value, the log lines
_download_file(url, response) ==
  IF response.kind = "status"
    THEN IF response.status_code = StatusOk
           THEN [requests |-> << url >>, ret |-> Some(response.content), logs |-> << >>]
           ELSE [requests |-> << url >>, ret |-> None, logs |-> << >>]
    ELSE [requests |-> << url >>, ret |-> None,
          logs |-> << LogEntry("debug", url) >>]

(***************************************************************************)
(* download_day, lines 153-199.                                            *)
(***************************************************************************)
\* a variant whose decompression error escapes the loop
HourBodyUncaught(f, url, dt, h) ==
  IF f.ret.isNone
    THEN [raised |-> FALSE, frames |-> << >>, logs |-> << >>]
  ELSE IF ~f.ret.content.valid
    THEN [raised |-> TRUE, frames |-> << >>, logs |-> << >>]
  ELSE [raised |-> FALSE,
        frames |-> (IF _parse_bi5(f.ret.content.plain, dt, h).rows # << >>
                      THEN << _parse_bi5(f.ret.content.plain, dt, h).rows >> ELSE << >>),
        logs |-> << >>]

\* lines 172-189: the rest of one iteration once the file is fetched.
\* [raised, frames, logs]: frames is what day_ticks.append receives (0 or 1 frame)
HourBody(f, url, dt, h) ==
  IF f.ret.isNone
    THEN [raised |-> FALSE, frames |-> << >>, logs |-> << >>]
  ELSE IF ~f.ret.content.valid
    THEN [raised |-> FALSE, frames |-> << >>, logs |-> << LogEntry("warning", url) >>]
  ELSE LET hour_df == _parse_bi5(f.ret.content.plain, dt, h)
       IN IF hour_df.raised
            THEN [raised |-> FALSE, frames |-> << >>,
                  logs |-> << LogEntry("warning", url) >>]
          ELSE IF hour_df.rows # << >>
            THEN [raised |-> FALSE, frames |-> << hour_df.rows >>, logs |-> << >>]
          ELSE [raised |-> FALSE, frames |-> << >>, logs |-> << >>]

\* lines 191-199: [df, logs]
DayResult(frames, dt) ==
  IF frames = << >>
    THEN [df |-> << >>, logs |-> << LogEntry("warning", dt) >>]
    ELSE [df |-> Flatten(frames), logs |-> << LogEntry("info", dt) >>]

(***************************************************************************)
(* download_range, lines 201-242.                                          *)
(***************************************************************************)
\* a variant that keeps only the latest non-empty day
CollectDayOverwriting(ticks, day_df) == IF day_df # << >> THEN << day_df >> ELSE ticks

\* lines 222-223
CollectDay(ticks, day_df) == IF day_df # << >> THEN Append(ticks, day_df) ELSE ticks

TsLE(a, b) == (a.ord < b.ord) \/ (a.ord = b.ord /\ a.ms <= b.ms)

RemoveAt(s, k) == SubSeq(s, 1, k - 1) \o SubSeq(s, k + 1, Len(s))

\* a variant that leaves the frame as concatenated
SortValuesSkipped(df) == {df}

\* sort_values('timestamp').reset_index(drop=True), line 231.  The sort kind is
\* the default, 'quicksort', which pandas documents as not stable: rows come out
\* in ascending timestamp order, rows of equal timestamp in any order.
RECURSIVE sort_values(_)
sort_values(df) ==
  IF df = << >> THEN {<< >>}
  ELSE UNION {
         {<< df[k] >> \o rest : rest \in sort_values(RemoveAt(df, k))} :
           k \in {m \in 1 .. Len(df) :
                    \A n \in 1 .. Len(df) : TsLE(df[m].timestamp, df[n].timestamp)} }

\* a variant without the early return
NothingDownloadedIgnored(ticks) == FALSE

\* line 225: if not all_ticks
NothingDownloaded(ticks) == ticks = << >>

\* a variant that writes whatever the flag
SaveCsvAlways(flag, name, df) == << [name |-> name, rows |-> df] >>

\* lines 235-240: the to_csv calls made for the combined frame
SaveCsv(flag, name, df) == IF flag THEN << [name |-> name, rows |-> df] >> ELSE << >>

\* f"{self.pair}_{start_date}_{end_date}.csv", line 237
FileName(p, ds) == [pair |-> p, start |-> ds[1], end |-> ds[Len(ds)], ext |-> ".csv"]

\* lines 225-242: the possible [result, writes, logs] of the end of the call
RangeResult(ticks, flag, p, ds) ==
  IF NothingDownloaded(ticks)
    THEN {[result |-> << >>, writes |-> << >>, logs |-> << LogEntry("error", p) >>]}
    ELSE {[result |-> combined_df,
           writes |-> SaveCsv(flag, FileName(p, ds), combined_df),
           logs |-> << LogEntry("info", p) >>
                    \o (IF flag THEN << LogEntry("info", FileName(p, ds)) >> ELSE << >>)] :
            combined_df \in sort_values(Flatten(ticks))}

(***************************************************************************)
(* What one hour of the feed amounts to, read off the response alone.      *)
(***************************************************************************)
HourOutcome(response, dt, h) ==
  IF response.kind # "status" \/ response.status_code # StatusOk
    THEN [kind |-> "absent", ticks |-> << >>]
  ELSE IF ~response.content.valid
    THEN [kind |-> "decompress_error", ticks |-> << >>]
  ELSE LET parsed == _parse_bi5(response.content.plain, dt, h)
       IN IF parsed.raised THEN [kind |-> "parse_error", ticks |-> << >>]
          ELSE IF parsed.rows = << >> THEN [kind |-> "zero_ticks", ticks |-> << >>]
          ELSE [kind |-> "ticks", ticks |-> parsed.rows]

(***************************************************************************)
(* The run of download_range.                                              *)
(***************************************************************************)
Pairs == {"EURUSD", "GBPJPY"}
StartDates == {[year |-> 2023, month |-> 12, day |-> 31]}
NoCtx == [dt |-> [year |-> 1, month |-> 1, day |-> 1], hour |-> 0]

Init ==
  /\ mode = "range"
  /\ pc = "day"
  /\ pair = "EURUSD"
  /\ dates \in {generate_date_range(s, n) : s \in StartDates, n \in 1 .. MaxDays}
  /\ save \in BOOLEAN
  /\ i = 1
  /\ hour = 0
  /\ day_ticks = << >>
  /\ all_ticks = << >>
  /\ okCount = 0
  /\ attempts = << >>
  /\ fetchRet = [url |-> << >>, ret |-> None]
  /\ logs = << LogEntry("info", pair) >>
  /\ hourSets = << >>
  /\ dayResults = << >>
  /\ writes = << >>
  /\ result = << >>
  /\ data = << >>
  /\ ctx = NoCtx

\* line 220 takes the next date; download_day starts, lines 163-165
DayStart ==
  /\ mode = "range" /\ pc = "day" /\ i <= Len(dates)
  /\ pc' = "hour"
  /\ hour' = 0
  /\ day_ticks' = << >>
  /\ hourSets' = << >>
  /\ logs' = << LogEntry("info", dates[i]) >>
  /\ UNCHANGED << mode, pair, dates, save, i, all_ticks, okCount, attempts, fetchRet,
                  dayResults, writes, result, data, ctx >>

\* one iteration of the loop of line 167
HourIteration ==
  /\ mode = "range" /\ pc = "hour" /\ hour < HoursPerDay
  /\ \E response \in Responses(hour, okCount) :
       LET dt == dates[i]
           url == _get_tick_url(pair, dt, hour)
           f == _download_file(url, response)
           body == HourBody(f, url, dt, hour)
       IN /\ attempts' = attempts \o [k \in 1 .. Len(f.requests) |->
                                        [dt |-> dt, hour |-> hour]]
          /\ fetchRet' = [url |-> url, ret |-> f.ret]
          /\ okCount' = IF f.ret.isNone THEN okCount ELSE okCount + 1
          /\ logs' = f.logs \o body.logs
          /\ day_ticks' = day_ticks \o body.frames
          /\ hourSets' = Append(hourSets, HourOutcome(response, dt, hour))
          /\ pc' = IF body.raised THEN "raised" ELSE "hour"
          /\ hour' = hour + 1
  /\ UNCHANGED << mode, pair, dates, save, i, all_ticks, dayResults, writes, result,
                  data, ctx >>

\* download_day returns, lines 191-199; download_range collects, lines 221-223
DayReturn ==
  /\ mode = "range" /\ pc = "hour" /\ hour = HoursPerDay
  /\ LET day == DayResult(day_ticks, dates[i])
     IN /\ all_ticks' = CollectDay(all_ticks, day.df)
        /\ dayResults' = Append(dayResults, day.df)
        /\ logs' = day.logs
  /\ i' = i + 1
  /\ pc' = "day"
  /\ UNCHANGED << mode, pair, dates, save, hour, day_ticks, okCount, attempts, fetchRet,
                  hourSets, writes, result, data, ctx >>

\* the loop of line 220 is exhausted: lines 225-242
RangeFinish ==
  /\ mode = "range" /\ pc = "day" /\ i > Len(dates)
  /\ \E r \in RangeResult(all_ticks, save, pair, dates) :
       /\ result' = r.result
       /\ writes' = writes \o r.writes
       /\ logs' = r.logs
  /\ pc' = "done"
  /\ UNCHANGED << mode, pair, dates, save, i, hour, day_ticks, all_ticks, okCount,
                  attempts, fetchRet, hourSets, dayResults, data, ctx >>

Next == DayStart \/ HourIteration \/ DayReturn \/ RangeFinish

Spec == Init /\ [][Next]_vars

(***************************************************************************)
(* Properties of download_day and download_range, under Spec.              *)
(***************************************************************************)
Last(s) == s[Len(s)]

TicksOf(sets) ==
  Flatten([k \in 1 .. Len(sets) |->
             IF sets[k].kind = "ticks" THEN sets[k].ticks ELSE << >>])

DayDone == mode = "range" /\ pc \in {"day", "done"} /\ dayResults # << >>

IsSortedByTimestamp(df) ==
  \A k \in 1 .. Len(df) - 1 : TsLE(df[k].timestamp, df[k + 1].timestamp)

AllDaysEmpty == \A k \in 1 .. Len(dayResults) : dayResults[k] = << >>

RECURSIVE SumLen(_)
SumLen(ss) == IF ss = << >> THEN 0 ELSE Len(Head(ss)) + SumLen(Tail(ss))

\* C1: download_day never raises, runs all 24 hours whatever each hour's outcome,
\* and returns the record sets of the hours that decoded at least one tick,
\* concatenated in ascending hour order; a failing hour contributes nothing.
C1_DayIsConcatenationOfGoodHours ==
  /\ pc # "raised"
  /\ (mode = "range" /\ pc = "hour") =>
        /\ Len(hourSets) = hour
        /\ Flatten(day_ticks) = TicksOf(hourSets)
  /\ DayDone =>
        /\ Len(hourSets) = HoursPerDay
        /\ Last(dayResults) = TicksOf(hourSets)

\* C1 witness: a finished day with an absent hour before two hours that decoded
C1_Witness ==
  /\ DayDone
  /\ \E h1, h2, h3 \in 1 .. Len(hourSets) :
       /\ h1 < h2 /\ h2 < h3
       /\ hourSets[h1].kind = "absent"
       /\ hourSets[h2].kind = "ticks"
       /\ hourSets[h3].kind = "ticks"
  /\ Len(Last(dayResults)) >= 2

\* C2: the dataset download_range returns is in ascending timestamp order
C2_ResultSorted == (mode = "range" /\ pc = "done") => IsSortedByTimestamp(result)

\* C2 witness: a finished run whose concatenation arrived out of timestamp order
C2_Witness ==
  /\ mode = "range" /\ pc = "done"
  /\ Len(result) >= 3
  /\ ~IsSortedByTimestamp(Flatten(all_ticks))

\* C3: download_range never raises, processes every date, and returns exactly the
\* ticks of the non-empty days, none lost and none duplicated; when every day is
\* empty the returned dataset is empty.
C3_RangeKeepsEveryTick ==
  /\ pc # "raised"
  /\ (mode = "range" /\ pc = "done") =>
        /\ Len(dayResults) = Len(dates)
        /\ Len(attempts) = HoursPerDay * Len(dates)
        /\ Len(result) = SumLen(dayResults)
        /\ \A k \in 1 .. Len(result) :
             Count(result, result[k]) = Count(Flatten(dayResults), result[k])
        /\ AllDaysEmpty => result = << >>

\* C3 witness: a finished run whose first day was empty and whose second was not
C3_Witness ==
  /\ mode = "range" /\ pc = "done"
  /\ Len(dayResults) >= 2
  /\ dayResults[1] = << >>
  /\ dayResults[2] # << >>
  /\ result # << >>

\* the stable sort of a frame by timestamp: the first of the least rows, repeatedly
RECURSIVE StableSort(_)
StableSort(df) ==
  IF df = << >> THEN << >>
  ELSE LET k == CHOOSE m \in 1 .. Len(df) :
                  /\ \A n \in 1 .. Len(df) : TsLE(df[m].timestamp, df[n].timestamp)
                  /\ \A n \in 1 .. m - 1 : ~TsLE(df[n].timestamp, df[m].timestamp)
       IN << df[k] >> \o StableSort(RemoveAt(df, k))

\* C4: the final sort is stable: ticks of equal timestamp keep their arrival order
C4_SortIsStable ==
  (mode = "range" /\ pc = "done") => result = StableSort(Flatten(all_ticks))

\* C5: the output file is written at most once, only once every date has been
\* processed, and never when the save flag is false
C5_WriteOnceAtEnd ==
  /\ Len(writes) <= 1
  /\ writes # << >> =>
        /\ save
        /\ pc = "done"
        /\ i > Len(dates)
        /\ Len(dayResults) = Len(dates)
        /\ Len(attempts) = HoursPerDay * Len(dates)

\* C5 witness: a finished run of two dates that wrote its file
C5_Witness == mode = "range" /\ pc = "done" /\ Len(writes) = 1 /\ Len(dates) >= 2

\* C6 as stated: total failure with save true leaves an empty output file, and no
\* file results only when persistence is skipped
C6_EmptyFileOnTotalFailure ==
  (mode = "range" /\ pc = "done" /\ AllDaysEmpty) =>
     /\ save => (Len(writes) = 1 /\ writes[1].rows = << >>)
     /\ writes = << >> => ~save

\* C6 amended: on total failure no file is written whatever the save flag, and the
\* empty dataset is returned; a file is written exactly when save is true and some
\* day yielded data
C6_NoFileOnTotalFailure ==
  (mode = "range" /\ pc = "done") =>
     /\ AllDaysEmpty => (writes = << >> /\ result = << >>)
     /\ (writes # << >>) <=> (save /\ ~AllDaysEmpty)

\* C6 witness: a finished run with save true in which every day was empty
C6_Witness ==
  mode = "range" /\ pc = "done" /\ save /\ AllDaysEmpty /\ Len(dates) >= 2

\* C7: every (date, hour) window gets exactly one retrieval attempt, in ascending
\* date order and ascending hour order within a date, whatever earlier attempts
\* gave; a failed attempt yields no data and is not repeated
C7_OneAttemptPerWindowInOrder ==
  mode = "range" =>
    /\ Len(attempts) = (IF pc = "hour" THEN (i - 1) * HoursPerDay + hour
                         ELSE (i - 1) * HoursPerDay)
    /\ \A k \in 1 .. Len(attempts) :
         /\ attempts[k].dt = dates[((k - 1) \div HoursPerDay) + 1]
         /\ attempts[k].hour = (k - 1) % HoursPerDay
    /\ (pc = "hour" /\ hour > 0 /\ fetchRet.ret.isNone) =>
         Last(hourSets).ticks = << >>
    /\ pc = "done" => Len(attempts) = HoursPerDay * Len(dates)

\* C7 witness: a finished run of two dates in which attempts failed and succeeded
C7_Witness ==
  /\ mode = "range" /\ pc = "done" /\ Len(dates) >= 2
  /\ okCount > 0
  /\ dayResults[1] = << >>

\* C8: whenever _download_file returns no data, a debug entry for that resource
\* has been logged
C8_AbsenceLoggedAtDebug ==
  (mode = "range" /\ pc = "hour" /\ hour > 0 /\ fetchRet.ret.isNone) =>
     \E k \in 1 .. Len(logs) : logs[k] = LogEntry("debug", fetchRet.url)

(***************************************************************************)
(* _parse_bi5 on its own: one call on a buffer of any length up to MaxLen. *)
(***************************************************************************)
\* the buffer of length n whose k-th byte (from 0) is (a*k + b) mod 256
PatternBuffer(n, a, b) == [k \in 1 .. n |-> (a * (k - 1) + b) % 256]

ParseContexts == {[dt |-> [year |-> 2024, month |-> 1, day |-> 15], hour |-> 3],
                  [dt |-> [year |-> 2023, month |-> 12, day |-> 31], hour |-> 23]}

InitParse ==
  /\ mode = "parse"
  /\ pc = "call"
  /\ data \in {PatternBuffer(n, a, b) : n \in 0 .. MaxLen, a \in {0, 1, 37}, b \in {0, 128, 255}}
  /\ ctx \in ParseContexts
  /\ pair = "EURUSD"
  /\ dates = << >>
  /\ save = FALSE
  /\ i = 1
  /\ hour = 0
  /\ day_ticks = << >>
  /\ all_ticks = << >>
  /\ okCount = 0
  /\ attempts = << >>
  /\ fetchRet = [url |-> << >>, ret |-> None]
  /\ logs = << >>
  /\ hourSets = << >>
  /\ dayResults = << >>
  /\ writes = << >>
  /\ result = << >>

ParseCall ==
  /\ mode = "parse" /\ pc = "call"
  /\ result' = _parse_bi5(data, ctx.dt, ctx.hour)
  /\ pc' = "done"
  /\ UNCHANGED << mode, pair, dates, save, i, hour, day_ticks, all_ticks, okCount,
                  attempts, fetchRet, logs, hourSets, dayResults, writes, data, ctx >>

SpecParse == InitParse /\ [][ParseCall]_vars

\* the bytes a decoded tick came from: the inverse of struct.unpack and of line 137
PackU32(u) == << u.hi \div 256, u.hi % 256, u.lo \div 256, u.lo % 256 >>

PackF32(f) ==
  << f.sign * 128 + (f.exponent \div 2),
     (f.exponent % 2) * 128 + (f.fraction \div 65536),
     (f.fraction \div 256) % 256,
     f.fraction % 256 >>

\* (t - base) in milliseconds as a uint32; 86400000 = 1318 * 65536 + 23552
OffsetMs(t, base) ==
  LET days == t.ord - base.ord
      low == days * 23552 + (t.ms - base.ms)
  IN [hi |-> days * 1318 + (low \div 65536), lo |-> low % 65536]

PackTick(tick, dt, h) ==
  PackU32(OffsetMs(tick.timestamp, BaseTime(dt, h)))
  \o PackU32(tick.ask.num) \o PackU32(tick.bid.num)
  \o PackF32(tick.ask_volume) \o PackF32(tick.bid_volume)

\* C9: for a buffer of any length L, _parse_bi5 signals no error and returns
\* floor(L/20) ticks, the k-th decoded from bytes [20k, 20k+20) in buffer order and
\* with prices scaled by 100000; trailing bytes are ignored, an empty buffer gives
\* an empty sequence
C9_ParseCompleteLeadingRecords ==
  (mode = "parse" /\ pc = "done") =>
     /\ ~result.raised
     /\ Len(result.rows) = Len(data) \div 20
     /\ \A k \in 1 .. Len(result.rows) :
          /\ PackTick(result.rows[k], ctx.dt, ctx.hour) = SubSeq(data, 20 * k - 19, 20 * k)
          /\ result.rows[k].ask.den = 100000
          /\ result.rows[k].bid.den = 100000
     /\ data = << >> => result.rows = << >>

\* C9 witness: a buffer of two whole records and a trailing partial one was parsed
C9_Witness ==
  /\ mode = "parse" /\ pc = "done"
  /\ Len(data) > 40 /\ Len(data) % 20 # 0
  /\ Len(result.rows) = 2
  /\ result.rows[1] # result.rows[2]

(***************************************************************************)
(* _get_tick_url on its own: one call for a pair, a date and an hour.      *)
(***************************************************************************)
Years == {987, 2024}

UrlContexts ==
  {[dt |-> [year |-> y, month |-> m, day |-> d], hour |-> h] :
     y \in Years, m \in 1 .. 12, d \in 1 .. 31, h \in Hours}

InitUrl ==
  /\ mode = "url"
  /\ pc = "call"
  /\ pair \in Pairs
  /\ ctx \in {c \in UrlContexts : c.dt.day <= DaysInMonth(c.dt.year, c.dt.month)}
  /\ data = << >>
  /\ dates = << >>
  /\ save = FALSE
  /\ i = 1
  /\ hour = 0
  /\ day_ticks = << >>
  /\ all_ticks = << >>
  /\ okCount = 0
  /\ attempts = << >>
  /\ fetchRet = [url |-> << >>, ret |-> None]
  /\ logs = << >>
  /\ hourSets = << >>
  /\ dayResults = << >>
  /\ writes = << >>
  /\ result = << >>

UrlCall ==
  /\ mode = "url" /\ pc = "call"
  /\ result' = _get_tick_url(pair, ctx.dt, ctx.hour)
  /\ pc' = "done"
  /\ UNCHANGED << mode, pair, dates, save, i, hour, day_ticks, all_ticks, okCount,
                  attempts, fetchRet, logs, hourSets, dayResults, writes, data, ctx >>

SpecUrl == InitUrl /\ [][UrlCall]_vars

\* the fields of a text between its "/" separators
RECURSIVE SplitOnSlash(_)
SplitOnSlash(s) ==
  IF \A k \in 1 .. Len(s) : s[k] # "/" THEN << s >>
  ELSE LET k == CHOOSE m \in 1 .. Len(s) :
                  s[m] = "/" /\ \A n \in 1 .. m - 1 : s[n] # "/"
       IN << SubSeq(s, 1, k - 1) >> \o SplitOnSlash(SubSeq(s, k + 1, Len(s)))

DigitValue(c) ==
  CASE c = "0" -> 0 [] c = "1" -> 1 [] c = "2" -> 2 [] c = "3" -> 3 [] c = "4" -> 4
    [] c = "5" -> 5 [] c = "6" -> 6 [] c = "7" -> 7 [] c = "8" -> 8 [] c = "9" -> 9

RECURSIVE NumberValue(_)
NumberValue(s) ==
  IF s = << >> THEN 0
  ELSE 10 * NumberValue(SubSeq(s, 1, Len(s) - 1)) + DigitValue(s[Len(s)])

\* C10: the URL is <base>/<INSTRUMENT>/<YYYY>/<MM0>/<DD>/<HH>h_ticks.bi5 with the
\* month field the calendar month minus one, the day field the day of the month
\* and the hour field the hour, each two digits wide; 2024-01-15 hour 3 gives
\* month 00, day 15, hour 03
C10_UrlFields ==
  (mode = "url" /\ pc = "done") =>
     LET fields == SplitOnSlash(result)
     IN /\ Len(fields) = 6
        /\ fields[1] = << BASE_URL >>
        /\ fields[2] = << pair >>
        /\ Len(fields[3]) = 4 /\ NumberValue(fields[3]) = ctx.dt.year
        /\ Len(fields[4]) = 2 /\ NumberValue(fields[4]) = ctx.dt.month - 1
        /\ Len(fields[5]) = 2 /\ NumberValue(fields[5]) = ctx.dt.day
        /\ Len(fields[6]) = 3 /\ NumberValue(SubSeq(fields[6], 1, 2)) = ctx.hour
        /\ fields[6][3] = "h_ticks.bi5"
        /\ (ctx = [dt |-> [year |-> 2024, month |-> 1, day |-> 15], hour |-> 3]) =>
             /\ fields[4] = << "0", "0" >>
             /\ fields[5] = << "1", "5" >>
             /\ SubSeq(fields[6], 1, 2) = << "0", "3" >>

\* C10 witness: the URL of 2024-01-15 hour 3 for EURUSD has been built
C10_Witness ==
  /\ mode = "url" /\ pc = "done"
  /\ pair = "EURUSD"
  /\ ctx = [dt |-> [year |-> 2024, month |-> 1, day |-> 15], hour |-> 3]
  /\ result = << BASE_URL, "/", "EURUSD", "/", "2", "0", "2", "4", "/", "0", "0", "/",
                 "1", "5", "/", "0", "3", "h_ticks.bi5" >>

====
